---- MODULE Spec2Model ----
(***************************************************************************)
(* Model of mcp_types.go (package mcp): the NotificationParams JSON codec  *)
(* (MarshalJSON / UnmarshalJSON), the Notification envelope that embeds    *)
(* it, and the Content variants with their constructors.                   *)
(*                                                                         *)
(* Go values of static type interface{} and JSON values share one record   *)
(* shape [k, s, m]: k is the dynamic type (Go) or the JSON type, s the     *)
(* scalar payload written as text, m the entries of a map / object.        *)
(* A map[string]interface{} field is [isNil, kv]: Go distinguishes the nil *)
(* map from an initialised empty one.                                      *)
(* A []byte document is [form, pad, obj]: form is what the text parses as, *)
(* pad says whether the text carries insignificant whitespace (so that the *)
(* byte comparisons sData == "null" and sData == "{}" can be decided), obj *)
(* the members of a top-level object.                                      *)
(***************************************************************************)
EXTENDS Integers, FiniteSets, TLC

VARIABLES p, data, err, op, src, fresh, n, env,
          content, cargs, cerr, cop

vars == <<p, data, err, op, src, fresh, n, env, content, cargs, cerr, cop>>
codecVars == <<p, data, err, op, src, fresh, n, env>>
contentVars == <<content, cargs, cerr, cop>>

---------------------------------------------------------------------------
(* Bounds of the model *)

\* Largest number of entries of a map assigned directly to a field, and of
\* the non-reserved members of a decoded document.
MaxEntries == 1
\* Largest number of UnmarshalJSON calls on one receiver.
MaxDecodes == 2

---------------------------------------------------------------------------
(* Values *)

NoEntries == [k \in {} |-> ""]

Val(kind, text) == [k |-> kind, s |-> text, m |-> NoEntries]
MapVal(kind, entries) == [k |-> kind, s |-> "", m |-> entries]

\* Go values held in map[string]interface{}
GoNil == Val("nil", "")
GoTrue == Val("bool", "true")
GoFloat1 == Val("float64", "1")
GoInt1 == Val("int", "1")
GoStr == Val("string", "s")
GoSlice == Val("slice", "[1]")
GoChan == Val("chan", "")

\* JSON values on the wire
JNull == Val("null", "")
JTrue == Val("bool", "true")
JNum1 == Val("number", "1")
JStr == Val("string", "s")
JArr == Val("array", "[1]")

\* json.Marshal accepts the value (a channel is an unsupported type)
RECURSIVE Encodable(_)
Encodable(v) ==
    /\ v.k # "chan"
    /\ \A key \in DOMAIN v.m : Encodable(v.m[key])

\* json.Marshal of an interface{} value
RECURSIVE EncodeValue(_)
EncodeValue(v) ==
    CASE v.k = "nil" -> JNull
      [] v.k = "bool" -> Val("bool", v.s)
      [] v.k \in {"float64", "int"} -> Val("number", v.s)
      [] v.k = "string" -> Val("string", v.s)
      [] v.k = "slice" -> Val("array", v.s)
      [] v.k = "map" -> MapVal("object", [key \in DOMAIN v.m |-> EncodeValue(v.m[key])])

\* json.Unmarshal into an interface{}: every number becomes a float64,
\* every object a map[string]interface{}, every array a []interface{}
RECURSIVE DecodeValue(_)
DecodeValue(j) ==
    CASE j.k = "null" -> GoNil
      [] j.k = "bool" -> Val("bool", j.s)
      [] j.k = "number" -> Val("float64", j.s)
      [] j.k = "string" -> Val("string", j.s)
      [] j.k = "array" -> Val("slice", j.s)
      [] j.k = "object" -> MapVal("map", [key \in DOMAIN j.m |-> DecodeValue(j.m[key])])

---------------------------------------------------------------------------
(* NotificationParams *)

NilMap == [isNil |-> TRUE, kv |-> NoEntries]
MakeMap == [isNil |-> FALSE, kv |-> NoEntries]
MapOf(entries) == [isNil |-> FALSE, kv |-> entries]

\* len(m): 0 for the nil map
MapLen(m) == Cardinality(DOMAIN m.kv)

\* The zero value NotificationParams{}
NotificationParams == [Meta |-> NilMap, AdditionalFields |-> NilMap]

\* Documents
NoData == [form |-> "none", pad |-> FALSE, obj |-> NoEntries]
Bytes(form, pad) == [form |-> form, pad |-> pad, obj |-> NoEntries]
ObjectBytes(members, pad) == [form |-> "object", pad |-> pad, obj |-> members]

\* string(data) == "null" and string(data) == "{}"
IsNullLiteral(d) == d.form = "null" /\ ~d.pad
IsEmptyObjectLiteral(d) == d.form = "object" /\ ~d.pad /\ DOMAIN d.obj = {}

---------------------------------------------------------------------------
(* NotificationParams.MarshalJSON *)

\* MetaEntry with the len(p.Meta) > 0 test left out
MetaEntryNonNil(q) ==
    IF ~q.Meta.isNil
    THEN [key \in {"_meta"} |-> MapVal("map", q.Meta.kv)]
    ELSE NoEntries

\* The map m after the Meta step: "_meta" is set only from a non-nil,
\* non-empty p.Meta
MetaEntry(q) ==
    IF ~q.Meta.isNil /\ MapLen(q.Meta) > 0
    THEN [key \in {"_meta"} |-> MapVal("map", q.Meta.kv)]
    ELSE NoEntries

\* FlattenFields with the k != "_meta" guard left out: a "_meta" field
\* overwrites the entry set from p.Meta
FlattenFieldsOverride(q, m) ==
    IF q.AdditionalFields.isNil
    THEN m
    ELSE LET af == q.AdditionalFields.kv
         IN [key \in DOMAIN m \cup DOMAIN af |->
                IF key \in DOMAIN af THEN af[key] ELSE m[key]]

\* The map m after the loop over p.AdditionalFields: every field other than
\* "_meta" is copied, "_meta" only when m does not hold one yet
FlattenFields(q, m) ==
    IF q.AdditionalFields.isNil
    THEN m
    ELSE LET af == q.AdditionalFields.kv
             copied == {key \in DOMAIN af : key # "_meta" \/ "_meta" \notin DOMAIN m}
         IN [key \in DOMAIN m \cup copied |->
                IF key \in copied THEN af[key] ELSE m[key]]

\* json.Marshal of a map[string]interface{}
JsonMarshal(m) ==
    IF \A key \in DOMAIN m : Encodable(m[key])
    THEN [bytes |-> ObjectBytes([key \in DOMAIN m |-> EncodeValue(m[key])], FALSE),
          err |-> "nil"]
    ELSE [bytes |-> NoData, err |-> "UnsupportedTypeError"]

\* MarshalJSON with m declared but never made and no len(m) == 0 return:
\* json.Marshal of the nil map is null
MarshalJSONNilMap(q) ==
    LET m == FlattenFields(q, MetaEntry(q))
    IN IF Cardinality(DOMAIN m) = 0
       THEN [bytes |-> Bytes("null", FALSE), err |-> "nil"]
       ELSE JsonMarshal(m)

MarshalJSON(q) ==
    LET m == FlattenFields(q, MetaEntry(q))
    IN IF Cardinality(DOMAIN m) = 0
       THEN [bytes |-> ObjectBytes(NoEntries, FALSE), err |-> "nil"]
       ELSE JsonMarshal(m)

---------------------------------------------------------------------------
(* NotificationParams.UnmarshalJSON *)

\* json.Unmarshal(data, &m) with m a nil map[string]interface{}: fails on
\* text that is not JSON and on JSON that is neither an object nor null;
\* null leaves m nil
JsonUnmarshal(d) ==
    CASE d.form = "object" ->
           [m |-> [key \in DOMAIN d.obj |-> DecodeValue(d.obj[key])], err |-> "nil"]
      [] d.form = "null" -> [m |-> NoEntries, err |-> "nil"]
      [] d.form = "scalar" -> [m |-> NoEntries, err |-> "UnmarshalTypeError"]
      [] OTHER -> [m |-> NoEntries, err |-> "SyntaxError"]

\* MergeMeta with p.Meta initialised before the type assertion
MergeMetaInit(meta, v) ==
    LET made == IF meta.isNil THEN MakeMap ELSE meta
    IN IF v.k = "map"
       THEN MapOf([mk \in DOMAIN made.kv \cup DOMAIN v.m |->
                     IF mk \in DOMAIN v.m THEN v.m[mk] ELSE made.kv[mk]])
       ELSE made

\* MergeMeta assigning the decoded object instead of copying its entries
MergeMetaReplace(meta, v) ==
    IF v.k = "map" THEN MapOf(v.m) ELSE meta

\* p.Meta after the "_meta" branch of the loop, v being m["_meta"]
MergeMeta(meta, v) ==
    IF v.k = "map"
    THEN LET metaMap == v.m
             made == IF meta.isNil /\ Cardinality(DOMAIN metaMap) > 0
                     THEN MakeMap ELSE meta
         IN IF ~made.isNil
            THEN MapOf([mk \in DOMAIN made.kv \cup DOMAIN metaMap |->
                          IF mk \in DOMAIN metaMap THEN metaMap[mk] ELSE made.kv[mk]])
            ELSE made
    ELSE meta

\* MergeFields without the k == "_meta" branch: every key is copied
MergeFieldsAll(fields, m) ==
    LET made == IF fields.isNil THEN MakeMap ELSE fields
    IN MapOf([key \in DOMAIN made.kv \cup DOMAIN m |->
                IF key \in DOMAIN m THEN m[key] ELSE made.kv[key]])

\* p.AdditionalFields after the loop: initialised when nil, then every key
\* of m other than "_meta" assigned
MergeFields(fields, m) ==
    LET made == IF fields.isNil THEN MakeMap ELSE fields
        keys == DOMAIN m \ {"_meta"}
    IN MapOf([key \in DOMAIN made.kv \cup keys |->
                IF key \in keys THEN m[key] ELSE made.kv[key]])

\* ResetParams initialising AdditionalFields only
ResetFieldsOnly(q) == [Meta |-> q.Meta, AdditionalFields |-> MakeMap]

\* The receiver after the null / {} path: both maps made anew
ResetParams(q) == [Meta |-> MakeMap, AdditionalFields |-> MakeMap]

UnmarshalJSON(q, d) ==
    IF IsNullLiteral(d) \/ IsEmptyObjectLiteral(d)
    THEN [p |-> ResetParams(q), err |-> "nil"]
    ELSE LET r == JsonUnmarshal(d)
         IN IF r.err # "nil"
            THEN [p |-> q, err |-> r.err]
            ELSE [p |-> [Meta |-> IF "_meta" \in DOMAIN r.m
                                  THEN MergeMeta(q.Meta, r.m["_meta"])
                                  ELSE q.Meta,
                         AdditionalFields |-> MergeFields(q.AdditionalFields, r.m)],
                  err |-> "nil"]

---------------------------------------------------------------------------
(* Notification envelope *)

\* encoding/json's omitempty: false, 0, a nil pointer or interface, and an
\* empty array, slice, map or string are omitted; a struct never is
OmitEmpty(kind, isEmpty) ==
    /\ kind \in {"bool", "number", "pointer", "interface", "array", "slice", "map", "string"}
    /\ isEmpty

NoEnvelope == [method |-> "", hasParams |-> FALSE, params |-> NoData, err |-> "none"]

\* json.Marshal(Notification{Method: method, Params: q}): Params is a field
\* of struct type NotificationParams tagged `json:"params,omitempty"`
MarshalNotification(method, q) ==
    IF OmitEmpty("struct", MapLen(q.Meta) = 0 /\ MapLen(q.AdditionalFields) = 0)
    THEN [method |-> method, hasParams |-> FALSE, params |-> NoData, err |-> "nil"]
    ELSE LET r == MarshalJSON(q)
         IN IF r.err = "nil"
            THEN [method |-> method, hasParams |-> TRUE, params |-> r.bytes, err |-> "nil"]
            ELSE [method |-> "", hasParams |-> FALSE, params |-> NoData, err |-> r.err]

---------------------------------------------------------------------------
(* Content variants and their constructors *)

\* The image discriminator misspelt
ContentTypeImageTypo == "img"

ContentTypeText == "text"
ContentTypeImage == "image"
ContentTypeAudio == "audio"
ContentTypeEmbeddedResource == "embedded_resource"

\* NewAudioContent stamping the image discriminator
NewAudioContentAsImage(d, mimeType) ==
    [variant |-> "AudioContent", Type |-> ContentTypeImage, Data |-> d,
     MimeType |-> mimeType, Annotations |-> "nil"]

\* The struct literals leave the embedded Annotated at its zero value: the
\* Annotations pointer is nil
NewTextContent(text) ==
    [variant |-> "TextContent", Type |-> ContentTypeText, Text |-> text,
     Annotations |-> "nil"]

NewImageContent(d, mimeType) ==
    [variant |-> "ImageContent", Type |-> ContentTypeImage, Data |-> d,
     MimeType |-> mimeType, Annotations |-> "nil"]

NewAudioContent(d, mimeType) ==
    [variant |-> "AudioContent", Type |-> ContentTypeAudio, Data |-> d,
     MimeType |-> mimeType, Annotations |-> "nil"]

NewEmbeddedResource(resource) ==
    [variant |-> "EmbeddedResource", Type |-> ContentTypeEmbeddedResource,
     Resource |-> resource, Annotations |-> "nil"]

NoContent == [variant |-> "none", Type |-> "", Annotations |-> "nil"]

\* Decoding a content object: dispatch on the "type" member, then populate
\* the fields of the variant selected; any other discriminator is an error
DecodeContent(j) ==
    CASE j.type = ContentTypeText ->
           [content |-> [variant |-> "TextContent", Type |-> j.type, Text |-> j.text,
                         Annotations |-> j.annotations],
            err |-> "nil"]
      [] j.type = ContentTypeImage ->
           [content |-> [variant |-> "ImageContent", Type |-> j.type, Data |-> j.data,
                         MimeType |-> j.mimeType, Annotations |-> j.annotations],
            err |-> "nil"]
      [] j.type = ContentTypeAudio ->
           [content |-> [variant |-> "AudioContent", Type |-> j.type, Data |-> j.data,
                         MimeType |-> j.mimeType, Annotations |-> j.annotations],
            err |-> "nil"]
      [] j.type = ContentTypeEmbeddedResource ->
           [content |-> [variant |-> "EmbeddedResource", Type |-> j.type,
                         Resource |-> j.resource, Annotations |-> j.annotations],
            err |-> "nil"]
      [] OTHER -> [content |-> NoContent, err |-> "unknown content type"]

---------------------------------------------------------------------------
(* Inputs *)

MetaKeys == {"a", "b"}
MetaValues == {GoInt1, GoStr}
FieldKeys == {"_meta", "x", "_meta_dup_test"}
AssignedKeys == {"_meta", "x"}
FieldValues == {GoFloat1, GoStr, GoChan, MapVal("map", [key \in {"a"} |-> GoFloat1])}

\* Every map over keys with at most max entries, and the nil map
MapsOver(keys, values, max) ==
    {NilMap} \cup
    {MapOf(f) : f \in UNION {[D -> values] :
                        D \in {S \in SUBSET keys : Cardinality(S) <= max}}}

\* Values built by direct field assignment
ParamsValues ==
    [Meta : MapsOver(MetaKeys, MetaValues, MaxEntries),
     AdditionalFields : MapsOver(AssignedKeys, FieldValues, MaxEntries)]

\* Values of a "_meta" member: the five non-object JSON types and objects
MetaMembers ==
    {JStr, JNum1, JTrue, JArr, JNull, MapVal("object", NoEntries),
     MapVal("object", [key \in {"a"} |-> JNum1]),
     MapVal("object", [key \in {"b"} |-> JNum1])}

\* Values of the other members
Members(key) ==
    CASE key = "_meta" -> MetaMembers
      [] key = "x" -> {JNum1, JStr}
      [] OTHER -> {JNum1}

\* Objects: every subset of the keys, every choice of member values
ObjectInputs ==
    UNION {{ObjectBytes(f, FALSE) :
              f \in {g \in [D -> MetaMembers \cup {JNum1, JStr}] :
                       \A key \in D : g[key] \in Members(key)}} :
           D \in SUBSET FieldKeys}

\* The documents decoded: null and the empty object with and without
\* whitespace, a JSON scalar, text that is not JSON, and the objects
Inputs ==
    {Bytes("null", FALSE), Bytes("null", TRUE), Bytes("scalar", FALSE),
     Bytes("invalid", FALSE), ObjectBytes(NoEntries, TRUE)}
    \cup ObjectInputs

Methods == {"notifications/progress"}

Strings == {"hi", "QQ==", "image/png"}
Resources == {"file:///a", "file:///b"}
ContentInputs ==
    [type : {ContentTypeText, ContentTypeImage, ContentTypeAudio,
             ContentTypeEmbeddedResource, "bogus", ""},
     text : Strings, data : Strings, mimeType : Strings, resource : Resources,
     annotations : {"nil", "set"}]

---------------------------------------------------------------------------
(* The codec as a state machine *)

NoSrc == [has |-> FALSE, v |-> NotificationParams]
NoArgs == [fn |-> "none"]

\* A params value built by direct field assignment (the zero value included)
Init ==
    /\ p \in ParamsValues
    /\ data = NoData
    /\ err = "nil"
    /\ op = "construct"
    /\ src = NoSrc
    /\ fresh = FALSE
    /\ n = 0
    /\ env = NoEnvelope
    /\ content = NoContent
    /\ cargs = NoArgs
    /\ cerr = "nil"
    /\ cop = "init"

\* A newly constructed params value; the bytes last encoded stay at hand
New ==
    /\ op = "marshal"
    /\ err = "nil"
    /\ p' = NotificationParams
    /\ err' = "nil"
    /\ op' = "new"
    /\ fresh' = FALSE
    /\ n' = 0
    /\ env' = NoEnvelope
    /\ UNCHANGED <<data, src>>
    /\ UNCHANGED contentVars

\* p.MarshalJSON()
Marshal ==
    /\ op \in {"construct", "unmarshal"}
    /\ LET r == MarshalJSON(p)
       IN /\ data' = r.bytes
          /\ err' = r.err
          /\ src' = [has |-> r.err = "nil", v |-> p]
    /\ op' = "marshal"
    /\ fresh' = FALSE
    /\ env' = NoEnvelope
    /\ UNCHANGED <<p, n>>
    /\ UNCHANGED contentVars

\* p.UnmarshalJSON(d)
Unmarshal(d) ==
    /\ n < MaxDecodes
    /\ d.form # "none"
    /\ LET r == UnmarshalJSON(p, d)
       IN /\ p' = r.p
          /\ err' = r.err
    /\ data' = d
    /\ op' = "unmarshal"
    /\ src' = IF src.has /\ op = "new" /\ d = data THEN src ELSE NoSrc
    /\ fresh' = (p = NotificationParams)
    /\ n' = n + 1
    /\ env' = NoEnvelope
    /\ UNCHANGED contentVars

\* json.Marshal(Notification{Method: method, Params: p})
Notify(method) ==
    /\ op \in {"construct", "unmarshal"}
    /\ env' = MarshalNotification(method, p)
    /\ err' = env'.err
    /\ op' = "notify"
    /\ UNCHANGED <<p, data, src, fresh, n>>
    /\ UNCHANGED contentVars

Next ==
    \/ New
    \/ Marshal
    \/ \E d \in Inputs \cup {data} : Unmarshal(d)
    \/ \E method \in Methods : Notify(method)

Spec == Init /\ [][Next]_vars

---------------------------------------------------------------------------
(* The content variants as a state machine *)

TextContentNew(text) ==
    /\ content' = NewTextContent(text)
    /\ cargs' = [fn |-> "NewTextContent", text |-> text]
    /\ cerr' = "nil"
    /\ cop' = "new"
    /\ UNCHANGED codecVars

ImageContentNew(d, mimeType) ==
    /\ content' = NewImageContent(d, mimeType)
    /\ cargs' = [fn |-> "NewImageContent", data |-> d, mimeType |-> mimeType]
    /\ cerr' = "nil"
    /\ cop' = "new"
    /\ UNCHANGED codecVars

AudioContentNew(d, mimeType) ==
    /\ content' = NewAudioContent(d, mimeType)
    /\ cargs' = [fn |-> "NewAudioContent", data |-> d, mimeType |-> mimeType]
    /\ cerr' = "nil"
    /\ cop' = "new"
    /\ UNCHANGED codecVars

EmbeddedResourceNew(resource) ==
    /\ content' = NewEmbeddedResource(resource)
    /\ cargs' = [fn |-> "NewEmbeddedResource", resource |-> resource]
    /\ cerr' = "nil"
    /\ cop' = "new"
    /\ UNCHANGED codecVars

ContentDecode(j) ==
    /\ LET r == DecodeContent(j)
       IN /\ content' = r.content
          /\ cerr' = r.err
    /\ cargs' = [fn |-> "decode", input |-> j]
    /\ cop' = "decode"
    /\ UNCHANGED codecVars

ContentNext ==
    \/ \E text \in Strings : TextContentNew(text)
    \/ \E d \in Strings, mimeType \in Strings : ImageContentNew(d, mimeType)
    \/ \E d \in Strings, mimeType \in Strings : AudioContentNew(d, mimeType)
    \/ \E resource \in Resources : EmbeddedResourceNew(resource)
    \/ \E j \in ContentInputs : ContentDecode(j)

\* No content built yet; the codec is left alone
ContentInit ==
    /\ p = NotificationParams
    /\ data = NoData
    /\ err = "nil"
    /\ op = "construct"
    /\ src = NoSrc
    /\ fresh = FALSE
    /\ n = 0
    /\ env = NoEnvelope
    /\ content = NoContent
    /\ cargs = NoArgs
    /\ cerr = "nil"
    /\ cop = "init"

ContentSpec == ContentInit /\ [][ContentNext]_vars

---------------------------------------------------------------------------
(* Properties *)

Decoded == op = "unmarshal"
DecodedNew == op = "unmarshal" /\ fresh
Encoded == op = "marshal"

\* p is the result of decoding, into a newly constructed value, the bytes
\* MarshalJSON returned for src.v
RoundTripped == op = "unmarshal" /\ fresh /\ src.has /\ err = "nil"

IsEmpty(m) == MapLen(m) = 0

\* The value is one json.Unmarshal produces for its own encoding
JsonNative(v) == Encodable(v) /\ DecodeValue(EncodeValue(v)) = v
AllJsonNative(m) == \A key \in DOMAIN m.kv : JsonNative(m.kv[key])

\* No "_meta" field of a non-object type
NoMalformedMeta(q) ==
    "_meta" \in DOMAIN q.AdditionalFields.kv =>
        q.AdditionalFields.kv["_meta"].k = "map"

\* The input's "_meta" object, empty when it has none
InputMeta(d) ==
    IF d.form = "object" /\ "_meta" \in DOMAIN d.obj /\ d.obj["_meta"].k = "object"
    THEN d.obj["_meta"].m
    ELSE NoEntries

\* The input's members other than "_meta", decoded
InputFields(d) ==
    [key \in DOMAIN d.obj \ {"_meta"} |-> DecodeValue(d.obj[key])]

\* C1 (as stated): decoding the bytes MarshalJSON returned for a value with
\* both mappings set and no non-object "_meta" field, into a newly
\* constructed value, gives back Meta and AdditionalFields exactly, an
\* empty mapping as an empty mapping.
C1_RoundTripExact ==
    (/\ RoundTripped
     /\ ~src.v.Meta.isNil
     /\ ~src.v.AdditionalFields.isNil
     /\ NoMalformedMeta(src.v))
    => /\ p.Meta = src.v.Meta
       /\ p.AdditionalFields = src.v.AdditionalFields

\* C1 (amended): when moreover AdditionalFields has no "_meta" field and
\* every value is one JSON decoding produces, AdditionalFields comes back
\* equal, Meta comes back with exactly its entries, and an empty Meta comes
\* back as an empty mapping only when AdditionalFields is empty too,
\* otherwise unset.
C1_RoundTrip ==
    (/\ RoundTripped
     /\ ~src.v.Meta.isNil
     /\ ~src.v.AdditionalFields.isNil
     /\ "_meta" \notin DOMAIN src.v.AdditionalFields.kv
     /\ AllJsonNative(src.v.Meta)
     /\ AllJsonNative(src.v.AdditionalFields))
    => /\ p.AdditionalFields = src.v.AdditionalFields
       /\ p.Meta.kv = src.v.Meta.kv
       /\ p.Meta.isNil <=> (IsEmpty(src.v.Meta) /\ ~IsEmpty(src.v.AdditionalFields))

C1_Witness ==
    /\ RoundTripped
    /\ ~IsEmpty(src.v.Meta)
    /\ ~IsEmpty(src.v.AdditionalFields)
    /\ "_meta" \notin DOMAIN src.v.AdditionalFields.kv
    /\ AllJsonNative(src.v.Meta)
    /\ AllJsonNative(src.v.AdditionalFields)
    /\ p = src.v

\* C2: MarshalJSON of a value whose Meta is nil or empty and whose
\* AdditionalFields is nil or empty returns exactly the bytes {} and no
\* error.
C2_EmptyEncodesAsEmptyObject ==
    (Encoded /\ IsEmpty(p.Meta) /\ IsEmpty(p.AdditionalFields))
    => /\ err = "nil"
       /\ IsEmptyObjectLiteral(data)

C2_Witness ==
    /\ Encoded
    /\ p.Meta = MakeMap
    /\ p.AdditionalFields = NilMap
    /\ IsEmptyObjectLiteral(data)

\* C3: UnmarshalJSON of the bytes null and of the bytes {} succeeds and
\* leaves Meta and AdditionalFields each a non-nil empty mapping.
C3_NullAndEmptyObjectInitialise ==
    (Decoded /\ (IsNullLiteral(data) \/ IsEmptyObjectLiteral(data)))
    => /\ err = "nil"
       /\ p.Meta = MakeMap
       /\ p.AdditionalFields = MakeMap

C3_Witness ==
    /\ Decoded
    /\ IsNullLiteral(data)
    /\ fresh
    /\ p = [Meta |-> MakeMap, AdditionalFields |-> MakeMap]

\* The input is an object whose "_meta" member is not an object
MalformedMetaInput(d) ==
    /\ d.form = "object"
    /\ "_meta" \in DOMAIN d.obj
    /\ d.obj["_meta"].k \in {"string", "number", "bool", "array", "null"}

\* C4 (as stated): decoding an object whose "_meta" is not an object into a
\* newly constructed value returns no error, drops "_meta", sets
\* AdditionalFields to the other members and leaves Meta equal to the empty
\* mapping.
C4_MalformedMetaGivesEmptyMeta ==
    (DecodedNew /\ MalformedMetaInput(data))
    => /\ err = "nil"
       /\ p.AdditionalFields = MapOf(InputFields(data))
       /\ p.Meta = MakeMap

\* C4 (amended): ... and leaves Meta unset (nil, without entries).
C4_MalformedMetaDropped ==
    (DecodedNew /\ MalformedMetaInput(data))
    => /\ err = "nil"
       /\ p.AdditionalFields = MapOf(InputFields(data))
       /\ "_meta" \notin DOMAIN p.AdditionalFields.kv
       /\ p.Meta = NilMap

C4_Witness ==
    /\ DecodedNew
    /\ data = ObjectBytes([key \in {"_meta", "x"} |->
                             IF key = "_meta" THEN JStr ELSE JNum1], FALSE)
    /\ p.AdditionalFields = MapOf([key \in {"x"} |-> GoFloat1])
    /\ p.Meta = NilMap

\* C5: in the bytes MarshalJSON returns, "_meta" is p.Meta when p.Meta is
\* not empty, whatever "_meta" AdditionalFields holds; it is the "_meta"
\* field when p.Meta is nil or empty and AdditionalFields holds one; it is
\* absent otherwise; every other member is a field with its value.
C5_MetaWinsOnEncode ==
    (Encoded /\ err = "nil")
    => LET out == data.obj
           af == p.AdditionalFields.kv
       IN /\ data.form = "object"
          /\ ~IsEmpty(p.Meta) =>
                /\ "_meta" \in DOMAIN out
                /\ out["_meta"] = EncodeValue(MapVal("map", p.Meta.kv))
          /\ (IsEmpty(p.Meta) /\ "_meta" \in DOMAIN af) =>
                /\ "_meta" \in DOMAIN out
                /\ out["_meta"] = EncodeValue(af["_meta"])
          /\ (IsEmpty(p.Meta) /\ "_meta" \notin DOMAIN af) =>
                "_meta" \notin DOMAIN out
          /\ \A key \in DOMAIN out \ {"_meta"} :
                key \in DOMAIN af /\ out[key] = EncodeValue(af[key])

C5_Witness ==
    /\ Encoded
    /\ err = "nil"
    /\ ~IsEmpty(p.Meta)
    /\ "_meta" \in DOMAIN p.AdditionalFields.kv
    /\ data.obj["_meta"] # EncodeValue(p.AdditionalFields.kv["_meta"])
    /\ data.obj["_meta"] = EncodeValue(MapVal("map", p.Meta.kv))

\* C6: decoding an object into a newly constructed value puts exactly the
\* members other than "_meta" into AdditionalFields, never "_meta" itself,
\* and only keys of the input's "_meta" object into Meta.
C6_DecodeSplitsOnReservedKey ==
    (DecodedNew /\ data.form = "object")
    => /\ err = "nil"
       /\ p.AdditionalFields.kv = InputFields(data)
       /\ "_meta" \notin DOMAIN p.AdditionalFields.kv
       /\ DOMAIN p.Meta.kv \subseteq DOMAIN InputMeta(data)
       /\ \A mk \in DOMAIN p.Meta.kv : p.Meta.kv[mk] = DecodeValue(InputMeta(data)[mk])

C6_Witness ==
    /\ DecodedNew
    /\ data.form = "object"
    /\ DOMAIN data.obj = {"_meta", "_meta_dup_test"}
    /\ DOMAIN p.Meta.kv = {"a"}
    /\ DOMAIN p.AdditionalFields.kv = {"_meta_dup_test"}

\* C7: the encoding of a Notification whose Params has Meta and
\* AdditionalFields both nil or empty has no "params" member.
C7_EmptyParamsOmitted ==
    (op = "notify" /\ IsEmpty(p.Meta) /\ IsEmpty(p.AdditionalFields))
    => ~env.hasParams

C9_ConstructorsStampType ==
    (cop = "new")
    => /\ content.Annotations = "nil"
       /\ cargs.fn = "NewTextContent" =>
            content.Type = "text" /\ content.Text = cargs.text
       /\ cargs.fn = "NewImageContent" =>
            /\ content.Type = "image"
            /\ content.Data = cargs.data /\ content.MimeType = cargs.mimeType
       /\ cargs.fn = "NewAudioContent" =>
            /\ content.Type = "audio"
            /\ content.Data = cargs.data /\ content.MimeType = cargs.mimeType
       /\ cargs.fn = "NewEmbeddedResource" =>
            content.Type = "embedded_resource" /\ content.Resource = cargs.resource

C9_Witness ==
    /\ cop = "new"
    /\ cargs.fn = "NewAudioContent"
    /\ content.Type = "audio"
    /\ content.Data = "QQ=="

\* before, after: a map field around one UnmarshalJSON call; input: the
\* decoded entries the call assigns. Every entry held before is still
\* there, changed only where the input has the key, and every input entry
\* is there.
Accumulated(before, after, input) ==
    /\ \A key \in DOMAIN before.kv :
          /\ key \in DOMAIN after.kv
          /\ key \notin DOMAIN input => after.kv[key] = before.kv[key]
    /\ \A key \in DOMAIN input :
          /\ key \in DOMAIN after.kv
          /\ after.kv[key] = DecodeValue(input[key])

DecodeAccumulates ==
    /\ Accumulated(p.Meta, p'.Meta, InputMeta(data'))
    /\ Accumulated(p.AdditionalFields, p'.AdditionalFields,
                   [key \in DOMAIN data'.obj \ {"_meta"} |-> data'.obj[key]])

\* C10 (as stated): no successful UnmarshalJSON of an object removes an
\* entry; it merges the input's entries into Meta and AdditionalFields.
C10_EveryObjectDecodeMerges ==
    [][(op' = "unmarshal" /\ err' = "nil" /\ data'.form = "object")
         => DecodeAccumulates]_vars

\* C10 (amended): ... of an object other than the exact bytes {} ...
C10_DecodeMerges ==
    [][(op' = "unmarshal" /\ err' = "nil" /\ data'.form = "object"
          /\ ~IsEmptyObjectLiteral(data'))
         => DecodeAccumulates]_vars

C10_Witness ==
    /\ Decoded
    /\ n = MaxDecodes
    /\ err = "nil"
    /\ data.form = "object"
    /\ DOMAIN InputMeta(data) = {"b"}
    /\ DOMAIN p.Meta.kv = {"a", "b"}
    /\ DOMAIN data.obj = {"_meta", "x"}
    /\ DOMAIN p.AdditionalFields.kv = {"x", "_meta_dup_test"}

====
